---- MODULE Spec2Model ----
(***************************************************************************)
(* Model of the municipal-ai RAG pipeline: ingest.py (OCR cache loader),   *)
(* load_to_db.py (section splitter and vector store loader), check_db.py   *)
(* (database inspector) and main.py (query assistant).                     *)
(*                                                                         *)
(* Texts are sequences of one-character strings.  The file system (the     *)
(* source PDF, the OCR text cache, the chroma_db directory) persists       *)
(* across runs; one entry point runs at a time.                            *)
(***************************************************************************)
EXTENDS Integers, Sequences, FiniteSets, TLC

(***************************************************************************)
(* Characters and strings                                                  *)
(***************************************************************************)
Digits == {"0", "1", "2", "3", "4", "5", "6", "7", "8", "9"}

IsDigit(c) == c \in Digits

\* str.strip() with no argument removes leading and trailing whitespace.
Whitespace == {" ", "\n", "\t", "\r"}

IsSpace(c) == c \in Whitespace

SetMin(S) == CHOOSE x \in S : \A y \in S : x <= y

SetMax(S) == CHOOSE x \in S : \A y \in S : y <= x

\* s repeated n times.
Rep(s, n) == [i \in 1..(n * Len(s)) |-> s[((i - 1) % Len(s)) + 1]]

\* sep.join(parts), computed without deep recursion.
RECURSIVE Join(_, _)
Join(parts, sep) ==
    IF Len(parts) = 0 THEN <<>>
    ELSE IF Len(parts) = 1 THEN parts[1]
    ELSE Join(SubSeq(parts, 1, Len(parts) - 1), sep) \o sep \o parts[Len(parts)]

\* The positions first..last of t that are left after stripping whitespace
\* from both ends of t[first..last]; <<1, 0>> when nothing is left.
StripSpan(t, first, last) ==
    LET keep == {i \in first..last : ~IsSpace(t[i])}
    IN  IF keep = {} THEN <<1, 0>> ELSE <<SetMin(keep), SetMax(keep)>>

Strip(s) ==
    LET sp == StripSpan(s, 1, Len(s)) IN SubSeq(s, sp[1], sp[2])

(***************************************************************************)
(* load_to_db.py: the primary strategy, re.split(r'(\d+\.\d+\.\d+)', text) *)
(***************************************************************************)
\* The last position of the maximal run of digits that starts at p.
DigitRunEnd(t, p) ==
    CHOOSE q \in p..Len(t) :
        /\ \A k \in p..q : IsDigit(t[k])
        /\ (q = Len(t) \/ ~IsDigit(t[q + 1]))

\* The end of the match of \d+\.\d+\.\d+ that starts at p, 0 when there is
\* none.  Each \d+ is greedy; giving digits back never helps, because the
\* character that follows a shorter run is a digit and not the dot.
MatchEnd(t, p) ==
    IF ~(p <= Len(t) /\ IsDigit(t[p])) THEN 0
    ELSE LET e1 == DigitRunEnd(t, p)
         IN  IF ~(e1 + 2 <= Len(t) /\ t[e1 + 1] = "." /\ IsDigit(t[e1 + 2])) THEN 0
             ELSE LET e2 == DigitRunEnd(t, e1 + 2)
                  IN  IF ~(e2 + 2 <= Len(t) /\ t[e2 + 1] = "." /\ IsDigit(t[e2 + 2]))
                      THEN 0
                      ELSE DigitRunEnd(t, e2 + 2)

\* The start of the leftmost match at or after position from, 0 when none.
NextMatch(t, from) ==
    LET starts == {p \in from..Len(t) : MatchEnd(t, p) > 0}
    IN  IF starts = {} THEN 0 ELSE SetMin(starts)

\* re.split with one capturing group: the text between the matches with the
\* matched identifiers in between, 2 * matches + 1 fragments in all.
RECURSIVE ReSplitFrom(_, _)
ReSplitFrom(t, from) ==
    LET p == NextMatch(t, from)
    IN  IF p = 0 THEN <<SubSeq(t, from, Len(t))>>
        ELSE <<SubSeq(t, from, p - 1), SubSeq(t, p, MatchEnd(t, p))>>
                 \o ReSplitFrom(t, MatchEnd(t, p) + 1)

ReSplit(t) == ReSplitFrom(t, 1)

\* A langchain Document; metadata is a function from keys to values.
Document(content, meta) == [page_content |-> content, metadata |-> meta]

NoMetadata == <<>>

SectionMetadata(id) == [section |-> id]

\* The loop over range(1, len(splits), 2) with its guard i + 1 < len(splits).
\* i is the Python (0-based) index; splits[i] there is splits[i + 1] here.
SectionIndices(splits) ==
    {i \in 1..(Len(splits) - 1) : i % 2 = 1 /\ i + 1 < Len(splits)}

\* Faulty variant: the content is stored as split, not stripped.
SectionDocumentsUnstripped(splits) ==
    [k \in 1..Cardinality(SectionIndices(splits)) |->
        Document(splits[2 * k + 1], SectionMetadata(splits[2 * k]))]

SectionDocuments(splits) ==
    [k \in 1..Cardinality(SectionIndices(splits)) |->
        Document(Strip(splits[2 * k + 1]), SectionMetadata(splits[2 * k]))]

(***************************************************************************)
(* load_to_db.py: the fallback strategy.  RecursiveCharacterTextSplitter   *)
(* is constructed with chunk_size and chunk_overlap only, so it runs with  *)
(* its defaults: separators "\n\n", "\n", " ", "", the separator kept at   *)
(* the start of the piece that follows it, whitespace stripped from every  *)
(* merged chunk, lengths counted in characters.  A piece or chunk is a     *)
(* span <<first, last>> of positions of the text.                          *)
(***************************************************************************)
Separators == << <<"\n", "\n">>, <<"\n">>, <<" ">>, <<>> >>

SpanLen(sp) == sp[2] - sp[1] + 1

OccursAt(t, sep, p, last) ==
    /\ p + Len(sep) - 1 <= last
    /\ \A j \in 1..Len(sep) : t[p + j - 1] = sep[j]

\* The leftmost non-overlapping matches among the candidate positions.
RECURSIVE SelectMatches(_, _, _)
SelectMatches(cands, from, width) ==
    LET c == {p \in cands : p >= from}
    IN  IF c = {} THEN {}
        ELSE {SetMin(c)} \cup SelectMatches(cands, SetMin(c) + width, width)

SeparatorMatches(t, sep, first, last) ==
    LET cands == {p \in first..last : OccursAt(t, sep, p, last)}
    IN  IF Len(sep) = 1 THEN cands ELSE SelectMatches(cands, first, Len(sep))

SortedSeq(S) ==
    [i \in 1..Cardinality(S) |-> CHOOSE x \in S : Cardinality({y \in S : y < x}) = i - 1]

\* _split_text_with_regex with keep_separator: the start of every non-empty
\* piece of t[first..last]; a piece runs to the start of the next one.
PieceStarts(t, sep, first, last) ==
    IF first > last THEN <<>>
    ELSE IF sep = <<>> THEN [k \in 1..(last - first + 1) |-> first + k - 1]
    ELSE SortedSeq({first} \cup SeparatorMatches(t, sep, first, last))

PieceEnd(starts, k, last) == IF k < Len(starts) THEN starts[k + 1] - 1 ELSE last

\* _join_docs: the pieces joined (they are adjacent, the join separator is
\* empty because the separator is kept in the pieces) and stripped; nothing
\* when only whitespace is left.
JoinDocs(t, first, last) ==
    LET sp == StripSpan(t, first, last)
    IN  IF sp[1] > sp[2] THEN <<>> ELSE <<sp>>

\* _merge_splits over the pieces from..h, with current_doc holding the pieces
\* cur..from-1.  The loop only acts at a piece k that does not fit behind a
\* non-empty current_doc (total + len > chunk_size, where total is the length
\* of current_doc): it emits current_doc, then drops pieces from its front
\* while total > chunk_overlap, or while piece k still does not fit and
\* total > 0.  Every other piece is just appended.
RECURSIVE MergeFrom(_, _, _, _, _, _, _, _)
MergeFrom(t, starts, last, size, overlap, cur, from, h) ==
    LET full == {k \in from..h :
                    cur < k /\ PieceEnd(starts, k, last) - starts[cur] + 1 > size}
    IN  IF full = {} THEN JoinDocs(t, starts[cur], PieceEnd(starts, h, last))
        ELSE LET k == SetMin(full)
                 len == PieceEnd(starts, k, last) - starts[k] + 1
                 Total(c) == starts[k] - starts[c]
                 kept == SetMin({c \in cur..k :
                                   ~(\/ Total(c) > overlap
                                     \/ (Total(c) + len > size /\ Total(c) > 0))})
             IN  JoinDocs(t, starts[cur], starts[k] - 1)
                     \o MergeFrom(t, starts, last, size, overlap, kept, k + 1, h)

MergeSplits(t, starts, last, size, overlap, g, h) ==
    MergeFrom(t, starts, last, size, overlap, g, g, h)

RECURSIVE SplitText(_, _, _, _, _, _)

\* The loop of _split_text over the pieces from..n, with _good_splits
\* holding the pieces good..from-1 (good = from when it is empty).  Pieces
\* shorter than chunk_size collect in _good_splits; a longer piece flushes
\* them through _merge_splits and is split again with the separators that
\* follow, or kept whole when there are none.
RECURSIVE SplitFrom(_, _, _, _, _, _, _, _)
SplitFrom(t, starts, last, nextSep, size, overlap, good, from) ==
    LET n == Len(starts)
        long == {k \in from..n : ~(PieceEnd(starts, k, last) - starts[k] + 1 < size)}
        Flush(upto) == IF good > upto THEN <<>>
                       ELSE MergeSplits(t, starts, last, size, overlap, good, upto)
    IN  IF long = {} THEN Flush(n)
        ELSE LET k == SetMin(long)
                 piece == <<starts[k], PieceEnd(starts, k, last)>>
             IN  Flush(k - 1)
                     \o (IF nextSep = 0 THEN <<piece>>
                         ELSE SplitText(t, piece[1], piece[2], nextSep, size, overlap))
                     \o SplitFrom(t, starts, last, nextSep, size, overlap, k + 1, k + 1)

\* _split_text on t[first..last] with the separators from index sepFrom on:
\* the first separator that occurs (the empty one always does) splits the
\* text.
SplitText(t, first, last, sepFrom, size, overlap) ==
    LET j == SetMin({i \in sepFrom..Len(Separators) :
                        \/ Separators[i] = <<>>
                        \/ \E p \in first..last : OccursAt(t, Separators[i], p, last)})
        sep == Separators[j]
        nextSep == IF sep = <<>> THEN 0 ELSE j + 1
        starts == PieceStarts(t, sep, first, last)
    IN  SplitFrom(t, starts, last, nextSep, size, overlap, 1, 1)

\* split_text(text): the chunks as spans of the text, in order.
ChunkSpans(t, size, overlap) == SplitText(t, 1, Len(t), 1, size, overlap)

\* create_documents([text]): one Document per chunk, with empty metadata.
CreateDocuments(t, size, overlap) ==
    LET spans == ChunkSpans(t, size, overlap)
    IN  [k \in 1..Len(spans) |-> Document(SubSeq(t, spans[k][1], spans[k][2]), NoMetadata)]

(***************************************************************************)
(* Program constants                                                       *)
(***************************************************************************)
FallbackThreshold == 10

ChunkSize == 1000

ChunkOverlap == 200

TopK == 3

(***************************************************************************)
(* Bounds of the model                                                     *)
(***************************************************************************)
\* Entry-point runs in one behaviour.
MaxRuns == 3

\* Questions answered in one session of the assistant.
MaxTurns == 2

(***************************************************************************)
(* Inputs: what partition_pdf returns for the source PDF (a sequence of    *)
(* elements, each a text), and what the file system holds at the start.    *)
(***************************************************************************)
ExampleText ==
    <<"1", "2", ".", "0", "4", ".", "0", "1", "0", " ", "N", "o", " ", "f",
      "e", "n", "c", "e", "s", " ", "o", "v", "e", "r", " ", "6", " ", "f",
      "e", "e", "t", ".", " ", "1", "2", ".", "0", "4", ".", "0", "2", "0",
      " ", "P", "e", "r", "m", "i", "t", "s", " ", "r", "e", "q", "u", "i",
      "r", "e", "d", ".">>

OneSectionText ==
    <<" ", "3", ".", "1", ".", "2", "\n", " ", "F", "e", "n", "c", "e",
      "s", ".", " ", "\n">>

TitleText ==
    <<"T", "i", "t", "l", "e", " ", "7", ".", "1", "0", ".", "2", " ", "D",
      "o", "g", "s">>

NearMissText ==
    <<"1", ".", "2", " ", "x", " ", "3", ".", "4", ".", "5", ".", "6", " ",
      "y">>

StaleText ==
    <<"0", ".", "0", ".", "1", " ", "o", "l", "d">>

DigitSeq == <<"0", "1", "2", "3", "4", "5", "6", "7", "8", "9">>

\* The element "<i>.0.<i> R<i>": one identifier followed by its content.
SectionElement(i) ==
    LET d == DigitSeq[(i % 10) + 1] IN <<d, ".", "0", ".", d, " ", "R", d>>

SectionElements(n) == [i \in 1..n |-> SectionElement(i)]

\* An identifier that is the last thing in the text.
BareIdentifier == <<"9", ".", "9", ".", "9">>

\* Long texts: nine 149-letter words, a run without any whitespace, and
\* paragraphs of four 149-letter words.
LongWord == Rep(<<"w">>, 149)

LongWordsText == Join([i \in 1..9 |-> LongWord], <<" ">>)

LongSolidText == Rep(<<"a", "b", "b">>, 400)

Paragraph == Join([i \in 1..4 |-> LongWord], <<" ">>)

PdfDocuments ==
    { <<>>,
      <<ExampleText>>,
      <<OneSectionText>>,
      <<TitleText>>,
      <<NearMissText>>,
      <<BareIdentifier>>,
      << <<" ", "\n">> >>,
      SectionElements(9),
      SectionElements(10),
      SectionElements(11),
      Append(SectionElements(8), BareIdentifier),
      Append(SectionElements(9), BareIdentifier),
      <<LongWordsText>>,
      <<LongSolidText>>,
      <<Paragraph, Paragraph, Paragraph>> }

NoFile == [exists |-> FALSE, text |-> <<>>]

File(t) == [exists |-> TRUE, text |-> t]

\* Python's None, and a str.
None == [none |-> TRUE, text |-> <<>>]

Str(t) == [none |-> FALSE, text |-> t]

\* The chroma_db directory: absent, present without a collection, or
\* holding the collection langchain_chroma creates, with its records.
NoDb == [exists |-> FALSE, collection |-> FALSE, records |-> <<>>]

EmptyDir == [exists |-> TRUE, collection |-> FALSE, records |-> <<>>]

Store(records) == [exists |-> TRUE, collection |-> TRUE, records |-> records]

StaleStore ==
    Store(<<Document(<<"o", "l", "d">>, SectionMetadata(<<"0", ".", "0", ".", "1">>)),
            Document(<<"o", "l", "d", "e", "r">>, NoMetadata)>>)

(***************************************************************************)
(* State                                                                   *)
(***************************************************************************)
VARIABLES
    pdfExists,       \* os.path.exists(PDF_PATH)
    elements,        \* what partition_pdf returns for the PDF
    cache,           \* full_text_ocr.txt (OCR_TEXT_CACHE, OCR_TEXT_PATH)
    db,              \* the chroma_db directory (DB_PATH)
    prog,            \* the entry point that runs: "none" before the first
    pc,              \* its position
    status,          \* "running", "ok" (returned) or "crashed" (uncaught)
    runs,            \* entry-point runs started
    out,             \* what the running entry point has printed
    extracted_text,  \* ingest.py: the value get_ocr_text returned
    hadCache,        \* ingest.py: the cache existed when get_ocr_text ran
    ocrCalls,        \* calls of partition_pdf, over all runs
    cacheWrites,     \* writes of the cache file, over all runs
    rebuilds,        \* completed add_documents calls, over all runs
    text,            \* load_to_db.py: text
    sections,        \* load_to_db.py: documents after the regex loop
    documents,       \* load_to_db.py: documents after the fallback
    chunks,          \* load_to_db.py: the spans of the fallback's chunks
    user_question,   \* main.py: the line input() returned
    response,        \* main.py: what rag_chain.invoke builds
    retrievals,      \* main.py: calls of the retriever in this run
    generations,     \* main.py: calls of the language model in this run
    turns            \* main.py: questions answered in this run

vars == <<pdfExists, elements, cache, db, prog, pc, status, runs, out,
          extracted_text, hadCache, ocrCalls, cacheWrites, rebuilds,
          text, sections, documents, chunks,
          user_question, response, retrievals, generations, turns>>

fsVars == <<pdfExists, elements, cache, db>>

ingestVars == <<extracted_text, hadCache>>

loadVars == <<text, sections, documents, chunks>>

mainVars == <<user_question, response, retrievals, generations, turns>>

countVars == <<ocrCalls, cacheWrites, rebuilds>>

\* No retrieval result, and no answer.
NoContext == [call |-> 0, query |-> <<>>, hits |-> 0]

NoAnswer == [call |-> 0, prompt |-> [context |-> NoContext, question |-> <<>>]]

NoResponse == [context |-> NoContext, question |-> <<>>, answer |-> NoAnswer]

\* The locals of every entry point before it runs.
FreshLocals ==
    /\ out = <<>>
    /\ extracted_text = None
    /\ hadCache = FALSE
    /\ text = <<>>
    /\ sections = <<>>
    /\ documents = <<>>
    /\ chunks = <<>>
    /\ user_question = <<>>
    /\ response = NoResponse
    /\ retrievals = 0
    /\ generations = 0
    /\ turns = 0

\* Nothing has run.
NothingRun ==
    /\ prog = "none"
    /\ pc = "exit"
    /\ status = "ok"
    /\ runs = 0
    /\ ocrCalls = 0
    /\ cacheWrites = 0
    /\ rebuilds = 0
    /\ FreshLocals

Init ==
    /\ pdfExists \in BOOLEAN
    /\ elements \in PdfDocuments
    /\ cache \in {NoFile, File(StaleText)}
    /\ db \in {NoDb, EmptyDir, StaleStore}
    /\ NothingRun

\* A process starts when none runs; its locals are fresh.
Start(p, first) ==
    /\ pc = "exit"
    /\ runs < MaxRuns
    /\ prog' = p
    /\ pc' = first
    /\ status' = "running"
    /\ runs' = runs + 1
    /\ out' = <<>>
    /\ extracted_text' = None
    /\ hadCache' = FALSE
    /\ text' = <<>>
    /\ sections' = <<>>
    /\ documents' = <<>>
    /\ chunks' = <<>>
    /\ user_question' = <<>>
    /\ response' = NoResponse
    /\ retrievals' = 0
    /\ generations' = 0
    /\ turns' = 0
    /\ UNCHANGED <<fsVars, countVars>>

\* return from the entry point, or an uncaught exception.
Finish(how) ==
    /\ pc' = "exit"
    /\ status' = how

\* The user deletes the cache file by hand to force a new extraction.
DeleteCache ==
    /\ pc = "exit"
    /\ cache.exists
    /\ cache' = NoFile
    /\ UNCHANGED <<pdfExists, elements, db, prog, pc, status, runs, out,
                   ingestVars, countVars, loadVars, mainVars>>

(***************************************************************************)
(* ingest.py                                                               *)
(***************************************************************************)
StartIngest == Start("ingest", "get_ocr_text")

\* Line 18: the source PDF is looked for first.
PdfMissing == ~pdfExists

\* Faulty variant: the cache is looked for whether or not the PDF exists.
CacheHitAnyPdf == cache.exists

\* Line 24: the cache is looked for once the PDF is known to exist.
CacheHit == ~PdfMissing /\ cache.exists

\* Faulty variant: the extraction runs although a cache file exists.
ColdRunDespiteCache == ~PdfMissing

\* Lines 29-53 run when neither return was taken.
ColdRun == ~PdfMissing /\ ~cache.exists

\* Line 44: "\n\n".join([str(el) for el in elements]).
FullText(els) == Join(els, <<"\n", "\n">>)

\* Lines 18-21.
GetOcrTextMissing ==
    /\ prog = "ingest" /\ pc = "get_ocr_text"
    /\ PdfMissing
    /\ out' = Append(out, "pdf_not_found")
    /\ extracted_text' = None
    /\ hadCache' = cache.exists
    /\ pc' = "verification"
    /\ UNCHANGED <<fsVars, prog, status, runs, countVars, loadVars, mainVars>>

\* Lines 24-27.
GetOcrTextCached ==
    /\ prog = "ingest" /\ pc = "get_ocr_text"
    /\ CacheHit
    /\ out' = Append(out, "found_cache")
    /\ extracted_text' = Str(cache.text)
    /\ hadCache' = cache.exists
    /\ pc' = "verification"
    /\ UNCHANGED <<fsVars, prog, status, runs, countVars, loadVars, mainVars>>

\* Lines 29-53: partition_pdf returns the elements, or raises; nothing
\* catches what it raises.
GetOcrTextCold ==
    /\ prog = "ingest" /\ pc = "get_ocr_text"
    /\ ColdRun
    /\ hadCache' = cache.exists
    /\ ocrCalls' = ocrCalls + 1
    /\ \E raised \in BOOLEAN :
          IF raised
          THEN /\ out' = Append(out, "no_cache")
               /\ Finish("crashed")
               /\ UNCHANGED <<cache, cacheWrites, extracted_text>>
          ELSE /\ out' = out \o <<"no_cache", "saving">>
               /\ cache' = File(FullText(elements))
               /\ cacheWrites' = cacheWrites + 1
               /\ extracted_text' = Str(FullText(elements))
               /\ pc' = "verification"
               /\ status' = status
    /\ UNCHANGED <<pdfExists, elements, db, prog, runs, rebuilds, loadVars, mainVars>>

\* Lines 57-60: len(extracted_text) raises TypeError on None.
IngestVerification ==
    /\ prog = "ingest" /\ pc = "verification"
    /\ IF extracted_text.none
       THEN /\ out' = Append(out, "verification")
            /\ Finish("crashed")
       ELSE /\ out' = out \o <<"verification", "retrieved">>
            /\ Finish("ok")
    /\ UNCHANGED <<fsVars, prog, runs, ingestVars, countVars, loadVars, mainVars>>

(***************************************************************************)
(* load_to_db.py                                                           *)
(***************************************************************************)
StartLoadToDb == Start("load_to_db", "load")

\* Lines 36-42.
LoadText ==
    /\ prog = "load_to_db" /\ pc = "load"
    /\ IF ~cache.exists
       THEN /\ out' = Append(out, "text_not_found")
            /\ Finish("ok")
            /\ text' = text
       ELSE /\ out' = Append(out, "loading")
            /\ text' = cache.text
            /\ pc' = "parse"
            /\ status' = status
    /\ UNCHANGED <<fsVars, prog, runs, ingestVars, countVars,
                   sections, documents, chunks, mainVars>>

\* Lines 46-57.
PrimarySections(t) == SectionDocuments(ReSplit(t))

ParseSections ==
    /\ prog = "load_to_db" /\ pc = "parse"
    /\ sections' = PrimarySections(text)
    /\ documents' = PrimarySections(text)
    /\ out' = Append(out, "parsing")
    /\ pc' = "fallback"
    /\ UNCHANGED <<fsVars, prog, status, runs, ingestVars, countVars,
                   text, chunks, mainVars>>

\* Faulty variant: the threshold taken inclusively.
FewSectionsInclusive(docs) == Len(docs) <= FallbackThreshold

\* Line 60.
FewSections(docs) == Len(docs) < FallbackThreshold

\* Lines 62-66.
FallbackSpans(t) == ChunkSpans(t, ChunkSize, ChunkOverlap)

FallbackDocuments(t) == CreateDocuments(t, ChunkSize, ChunkOverlap)

\* Lines 60-68.
Fallback ==
    /\ prog = "load_to_db" /\ pc = "fallback"
    /\ IF FewSections(documents)
       THEN /\ documents' = FallbackDocuments(text)
            /\ chunks' = FallbackSpans(text)
            /\ out' = out \o <<"few_sections", "created">>
       ELSE /\ out' = Append(out, "created")
            /\ UNCHANGED <<documents, chunks>>
    /\ pc' = "rebuild"
    /\ UNCHANGED <<fsVars, prog, status, runs, ingestVars, countVars,
                   text, sections, mainVars>>

\* Faulty variant: the old directory is kept.
ClearDatabaseNever(d) == d

\* Lines 71-73: shutil.rmtree(DB_PATH) when the directory exists.
ClearDatabase(d) == IF d.exists THEN NoDb ELSE d

\* Line 76: Chroma(persist_directory=...) opens the directory and gets or
\* creates its collection.
Chroma(d) == Store(d.records)

\* Line 81: add_documents stores one record per document.
AddDocuments(d, docs) == Store(d.records \o docs)

\* Lines 71-81 when nothing raises.
RebuildIndex(d, docs) == AddDocuments(Chroma(ClearDatabase(d)), docs)

\* Lines 70-82.  The embedding service or the store may raise in
\* add_documents; then nothing catches it and the store is left with what
\* had been added: nothing, or all but the last document.
RebuildDatabase ==
    /\ prog = "load_to_db" /\ pc = "rebuild"
    /\ \E raised \in BOOLEAN :
          IF raised
          THEN /\ \E n \in {0, Len(documents) - 1} \cap Nat :
                     db' = RebuildIndex(db, SubSeq(documents, 1, n))
               /\ out' = out \o <<"initializing", "adding">>
               /\ rebuilds' = rebuilds
               /\ Finish("crashed")
          ELSE /\ db' = RebuildIndex(db, documents)
               /\ rebuilds' = rebuilds + 1
               /\ out' = out \o <<"initializing", "adding", "added">>
               /\ pc' = "verify"
               /\ status' = status
    /\ UNCHANGED <<pdfExists, elements, cache, prog, runs, ingestVars,
                   ocrCalls, cacheWrites, loadVars, mainVars>>

\* Lines 85-103: the count and the test search are inside try/except.
VerifyDatabase ==
    /\ prog = "load_to_db" /\ pc = "verify"
    /\ \E raised \in BOOLEAN :
          out' = out \o <<IF raised THEN "verification_failed"
                          ELSE IF Len(db.records) = 0 THEN "no_results"
                          ELSE "verified",
                          "complete">>
    /\ Finish("ok")
    /\ UNCHANGED <<fsVars, prog, runs, ingestVars, countVars, loadVars, mainVars>>

(***************************************************************************)
(* check_db.py                                                             *)
(***************************************************************************)
StartCheckDb == Start("check_db", "direct")

\* Where a collaborator raises inside the direct check: nowhere, in
\* PersistentClient or list_collections, or in collection.count().
DirectRaisePoints(d) ==
    IF ~d.exists THEN {"none"}
    ELSE IF ~d.collection THEN {"none", "client"}
    ELSE {"none", "client", "count"}

\* Faulty variant: no try/except around the client calls.
CheckWithDirectClientUncaught(d, at) ==
    IF ~d.exists
    THEN [printed |-> <<"method_1", "not_found">>, raises |-> FALSE]
    ELSE IF at = "client"
    THEN [printed |-> <<"method_1">>, raises |-> TRUE]
    ELSE IF ~d.collection
    THEN [printed |-> <<"method_1", "no_collections">>, raises |-> FALSE]
    ELSE IF at = "count"
    THEN [printed |-> <<"method_1", "found">>, raises |-> TRUE]
    ELSE [printed |-> <<"method_1", "found", "counted">>, raises |-> FALSE]

\* check_with_direct_client, lines 10-32: what it prints, and whether an
\* exception leaves it.  except Exception catches whatever the client raises.
CheckWithDirectClient(d, at) ==
    IF ~d.exists
    THEN [printed |-> <<"method_1", "not_found">>, raises |-> FALSE]
    ELSE IF at = "client"
    THEN [printed |-> <<"method_1", "direct_error">>, raises |-> FALSE]
    ELSE IF ~d.collection
    THEN [printed |-> <<"method_1", "no_collections">>, raises |-> FALSE]
    ELSE IF at = "count"
    THEN [printed |-> <<"method_1", "found", "direct_error">>, raises |-> FALSE]
    ELSE [printed |-> <<"method_1", "found", "counted">>, raises |-> FALSE]

\* Line 67.
CheckDirect ==
    /\ prog = "check_db" /\ pc = "direct"
    /\ \E at \in DirectRaisePoints(db) :
          LET r == CheckWithDirectClient(db, at)
          IN  /\ out' = out \o r.printed
              /\ IF r.raises THEN Finish("crashed")
                 ELSE pc' = "wrapper" /\ status' = status
    /\ UNCHANGED <<fsVars, prog, runs, ingestVars, countVars, loadVars, mainVars>>

\* Where a collaborator raises inside the wrapper check: nowhere, before
\* Chroma(...) has opened the directory (boto3, BedrockEmbeddings, Chroma
\* itself), or in similarity_search.
WrapperRaisePoints == {"none", "client", "search"}

\* check_with_langchain_wrapper, lines 35-62: what it prints, the directory
\* it leaves, and whether an exception leaves it.
CheckWithLangchainWrapper(d, at) ==
    IF at = "client"
    THEN [printed |-> <<"method_2", "wrapper_error">>, db |-> d, raises |-> FALSE]
    ELSE IF at = "search"
    THEN [printed |-> <<"method_2", "running_search", "wrapper_error">>,
          db |-> Chroma(d), raises |-> FALSE]
    ELSE [printed |-> <<"method_2", "running_search", "results">>,
          db |-> Chroma(d), raises |-> FALSE]

\* Line 68.
CheckWrapper ==
    /\ prog = "check_db" /\ pc = "wrapper"
    /\ \E at \in WrapperRaisePoints :
          LET r == CheckWithLangchainWrapper(db, at)
          IN  /\ out' = out \o r.printed
              /\ db' = r.db
              /\ IF r.raises THEN Finish("crashed")
                 ELSE pc' = "complete" /\ status' = status
    /\ UNCHANGED <<pdfExists, elements, cache, prog, runs, ingestVars, countVars,
                   loadVars, mainVars>>

\* Line 69.
CheckComplete ==
    /\ prog = "check_db" /\ pc = "complete"
    /\ out' = Append(out, "check_complete")
    /\ Finish("ok")
    /\ UNCHANGED <<fsVars, prog, runs, ingestVars, countVars, loadVars, mainVars>>

(***************************************************************************)
(* main.py                                                                 *)
(***************************************************************************)
StartMain == Start("main", "init")

UpperLetters ==
    <<"A", "B", "C", "D", "E", "F", "G", "H", "I", "J", "K", "L", "M",
      "N", "O", "P", "Q", "R", "S", "T", "U", "V", "W", "X", "Y", "Z">>

LowerLetters ==
    <<"a", "b", "c", "d", "e", "f", "g", "h", "i", "j", "k", "l", "m",
      "n", "o", "p", "q", "r", "s", "t", "u", "v", "w", "x", "y", "z">>

LowerChar(c) ==
    IF \E i \in 1..Len(UpperLetters) : UpperLetters[i] = c
    THEN LowerLetters[CHOOSE i \in 1..Len(UpperLetters) : UpperLetters[i] = c]
    ELSE c

\* str.lower()
Lower(line) == [i \in 1..Len(line) |-> LowerChar(line[i])]

Exit == <<"e", "x", "i", "t">>

\* Faulty variant: the comparison without lower().
IsExitCaseSensitive(line) == line = Exit

\* Line 91: user_question.lower() == 'exit'
IsExit(line) == Lower(line) = Exit

\* The lines the user may type.
InputLines ==
    { Exit,
      <<"E", "X", "I", "T">>,
      <<"E", "x", "i", "t">>,
      <<"e", "x", "i", "t", " ">>,
      <<"f", "e", "n", "c", "e", " ", "h", "e", "i", "g", "h", "t">>,
      <<"D", "o", "g", "s", "?">> }

\* The retriever (search_kwargs k = 3) on a query: at most TopK of the
\* records.  call numbers the retrieval that produced the result.
Retrieved(d, query, call) ==
    [call  |-> call,
     query |-> query,
     hits  |-> IF Len(d.records) < TopK THEN Len(d.records) ELSE TopK]

\* Lines 15-86: Chroma(...) opens the directory, then the retriever is
\* tried once on a fixed question.  Nothing catches what a collaborator
\* raises, before the directory is opened or in the retrieval.
MainInit ==
    /\ prog = "main" /\ pc = "init"
    /\ \E at \in {"none", "client", "retriever"} :
          /\ db' = IF at = "client" THEN db ELSE Chroma(db)
          /\ retrievals' = IF at = "client" THEN retrievals ELSE retrievals + 1
          /\ IF at = "none"
             THEN /\ out' = out \o <<"initializing", "retriever_test", "ready">>
                  /\ pc' = "await"
                  /\ status' = status
             ELSE /\ out' = Append(out, "initializing")
                  /\ Finish("crashed")
    /\ UNCHANGED <<pdfExists, elements, cache, prog, runs, ingestVars, countVars,
                   loadVars, user_question, response, generations, turns>>

\* Lines 90-92: one line is read; exit ends the loop.
ReadLine ==
    /\ prog = "main" /\ pc = "await"
    /\ \E line \in InputLines :
          /\ turns < MaxTurns \/ IsExit(line)
          /\ user_question' = line
          /\ IF IsExit(line) THEN Finish("ok")
             ELSE pc' = "retrieve" /\ status' = status
    /\ UNCHANGED <<fsVars, prog, runs, out, ingestVars, countVars, loadVars,
                   response, retrievals, generations, turns>>

\* Line 90: input() raises EOFError when standard input is closed.
ReadEof ==
    /\ prog = "main" /\ pc = "await"
    /\ Finish("crashed")
    /\ UNCHANGED <<fsVars, prog, runs, out, ingestVars, countVars, loadVars, mainVars>>

\* Line 94, first stage of rag_chain (lines 80-83): the retriever gets the
\* question and the question is passed through.
Retrieve ==
    /\ prog = "main" /\ pc = "retrieve"
    /\ retrievals' = retrievals + 1
    /\ \E raised \in BOOLEAN :
          IF raised
          THEN Finish("crashed") /\ response' = response
          ELSE /\ response' = [context  |-> Retrieved(db, user_question, retrievals + 1),
                               question |-> user_question,
                               answer   |-> NoAnswer]
               /\ pc' = "generate"
               /\ status' = status
    /\ UNCHANGED <<fsVars, prog, runs, out, ingestVars, countVars, loadVars,
                   user_question, generations, turns>>

\* Faulty variant: the prompt is filled with the question only.
PromptWithoutContext(r) == [context |-> NoContext, question |-> r.question]

\* The prompt (lines 47-60) filled from the first stage's output.
Prompt(r) == [context |-> r.context, question |-> r.question]

\* Line 94, second stage of rag_chain (line 83, .assign(answer=answer_chain)):
\* prompt | llm | StrOutputParser().
Generate ==
    /\ prog = "main" /\ pc = "generate"
    /\ generations' = generations + 1
    /\ \E raised \in BOOLEAN :
          IF raised
          THEN Finish("crashed") /\ response' = response
          ELSE /\ response' = [response EXCEPT
                                  !.answer = [call   |-> generations + 1,
                                              prompt |-> Prompt(response)]]
               /\ pc' = "present"
               /\ status' = status
    /\ UNCHANGED <<fsVars, prog, runs, out, ingestVars, countVars, loadVars,
                   user_question, retrievals, turns>>

\* Lines 96-105: the sources, then the answer; back to input().
Present ==
    /\ prog = "main" /\ pc = "present"
    /\ out' = out \o <<"sources", "answer">>
    /\ turns' = turns + 1
    /\ pc' = "await"
    /\ UNCHANGED <<fsVars, prog, status, runs, ingestVars, countVars, loadVars,
                   user_question, response, retrievals, generations>>

(***************************************************************************)
(* Specifications                                                          *)
(***************************************************************************)
Next ==
    \/ StartIngest
    \/ GetOcrTextMissing
    \/ GetOcrTextCached
    \/ GetOcrTextCold
    \/ IngestVerification
    \/ StartLoadToDb
    \/ LoadText
    \/ ParseSections
    \/ Fallback
    \/ RebuildDatabase
    \/ VerifyDatabase
    \/ DeleteCache

Spec == Init /\ [][Next]_vars

\* The database inspector, over every state of the chroma_db directory.
InitInspect ==
    /\ pdfExists \in BOOLEAN
    /\ elements = <<ExampleText>>
    /\ cache = NoFile
    /\ db \in {NoDb, EmptyDir, Store(<<>>), StaleStore,
               Store(PrimarySections(FullText(SectionElements(10))))}
    /\ NothingRun

NextInspect ==
    \/ StartCheckDb
    \/ CheckDirect
    \/ CheckWrapper
    \/ CheckComplete

SpecInspect == InitInspect /\ [][NextInspect]_vars

\* The query assistant, over stores of every size up to more than TopK.
InitAssistant ==
    /\ pdfExists = TRUE
    /\ elements = <<ExampleText>>
    /\ cache = NoFile
    /\ db \in {NoDb, Store(<<>>), StaleStore,
               Store(PrimarySections(FullText(SectionElements(10))))}
    /\ NothingRun

NextAssistant ==
    \/ StartMain
    \/ MainInit
    \/ ReadLine
    \/ ReadEof
    \/ Retrieve
    \/ Generate
    \/ Present

SpecAssistant == InitAssistant /\ [][NextAssistant]_vars

(***************************************************************************)
(* Claims                                                                  *)
(***************************************************************************)
Printed(tag) == \E i \in 1..Len(out) : out[i] = tag

LastPrinted == IF Len(out) = 0 THEN "" ELSE out[Len(out)]

\* get_ocr_text has returned to ingest.py's main block.
Returned == prog = "ingest" /\ pc = "verification"

Parsed == prog = "load_to_db" /\ pc \in {"fallback", "rebuild", "verify"}

\* The fallback decision has been taken.
Split == prog = "load_to_db" /\ pc \in {"rebuild", "verify"}

\* The text holds exactly one identifier, followed by content.
OneIdentifier(t) ==
    LET sp == ReSplit(t) IN Len(sp) = 3 /\ Strip(sp[3]) # <<>>

\* A string matches \d+\.\d+\.\d+ as a whole.
IsIdentifier(id) == Len(id) > 0 /\ MatchEnd(id, 1) = Len(id)

ExampleSections ==
    <<Document(<<"N", "o", " ", "f", "e", "n", "c", "e", "s", " ", "o", "v", "e", "r",
                 " ", "6", " ", "f", "e", "e", "t", ".">>,
               SectionMetadata(<<"1", "2", ".", "0", "4", ".", "0", "1", "0">>)),
      Document(<<"P", "e", "r", "m", "i", "t", "s", " ", "r", "e", "q", "u", "i", "r",
                 "e", "d", ".">>,
               SectionMetadata(<<"1", "2", ".", "0", "4", ".", "0", "2", "0">>))>>

OneSectionSections ==
    <<Document(<<"F", "e", "n", "c", "e", "s", ".">>,
               SectionMetadata(<<"3", ".", "1", ".", "2">>))>>

\* The sections C2 expects of a text.
ExpectedSections(t, docs) ==
    /\ OneIdentifier(t) =>
          /\ Len(docs) = 1
          /\ "section" \in DOMAIN docs[1].metadata
          /\ IsIdentifier(docs[1].metadata.section)
          /\ docs[1].page_content = Strip(ReSplit(t)[3])
    /\ t = OneSectionText => docs = OneSectionSections
    /\ t = ExampleText => docs = ExampleSections

\* C2 as stated: the splitter's output for a text with one identifier is
\* that one section, and for the example text its two sections.
C2_AsStated ==
    Split => ExpectedSections(text, documents)

\* C2, amended: the regex strategy finds exactly that one section, and the
\* two of the example text; being fewer than ten they are then replaced, and
\* the splitter's output is the chunking of the raw text without section
\* identifiers (for the example text, one chunk that is the whole text).
C2_PrimaryThenFallback ==
    /\ Parsed => ExpectedSections(text, sections)
    /\ Split =>
          /\ (OneIdentifier(text) \/ text = ExampleText) =>
                \A k \in 1..Len(documents) : "section" \notin DOMAIN documents[k].metadata
          /\ text = ExampleText => documents = <<Document(ExampleText, NoMetadata)>>

C2_Witness ==
    /\ Split /\ text = ExampleText
    /\ Len(sections) = 2
    /\ Len(documents) = 1

\* An ingestion run has completed add_documents.
Rebuilt == prog = "load_to_db" /\ (pc = "verify" \/ (pc = "exit" /\ Printed("complete")))

\* C4: after every completed ingestion run the collection holds exactly the
\* documents of that run, whatever the directory held before.
C4_CountEqualsSections ==
    Rebuilt =>
        /\ db.exists /\ db.collection
        /\ Len(db.records) = Len(documents)
        /\ db.records = documents

\* The second of two rebuilds in a row, with the regex sections.
C4_Witness ==
    /\ Rebuilt /\ runs = 3 /\ rebuilds = 2
    /\ Len(documents) = 11
    /\ Len(db.records) = 11

\* The characters two consecutive chunks share.
Overlap(a, b) == IF a[2] < b[1] THEN 0 ELSE a[2] - b[1] + 1

\* C5: with fewer than 10 regex sections the documents are the chunks of the
\* raw text, in order, each of at most 1000 characters, consecutive ones
\* sharing at most 200, none with a section identifier; with 10 or more the
\* regex sections are kept.
C5_FallbackChunks ==
    Split =>
        /\ Len(sections) < 10 =>
              /\ Len(documents) = Len(chunks)
              /\ \A k \in 1..Len(documents) :
                    /\ documents[k].page_content = SubSeq(text, chunks[k][1], chunks[k][2])
                    /\ 1 <= chunks[k][1] /\ chunks[k][2] <= Len(text)
                    /\ Len(documents[k].page_content) <= 1000
                    /\ Len(documents[k].page_content) >= 1
                    /\ "section" \notin DOMAIN documents[k].metadata
              /\ \A k \in 1..(Len(chunks) - 1) :
                    /\ chunks[k][1] < chunks[k + 1][1]
                    /\ Overlap(chunks[k], chunks[k + 1]) <= 200
        /\ Len(sections) >= 10 =>
              /\ documents = sections
              /\ chunks = <<>>

\* A hard cut: a full chunk of 1000 characters and an overlap of 200.
C5_Witness ==
    /\ Split /\ Len(sections) < 10
    /\ Len(chunks) >= 2
    /\ SpanLen(chunks[1]) = 1000
    /\ Overlap(chunks[1], chunks[2]) = 200

\* C6: partition_pdf is called only while the cache file is absent; while it
\* exists no step calls partition_pdf or writes the cache; a cache write
\* happens once, with a call of partition_pdf, and a call that returns is
\* followed by its one write.
C6_OcrOnlyWithoutCache ==
    [][ /\ ocrCalls' # ocrCalls => (~cache.exists /\ ocrCalls' = ocrCalls + 1)
        /\ cache.exists =>
              /\ ocrCalls' = ocrCalls
              /\ cacheWrites' = cacheWrites
              /\ cache' \in {cache, NoFile}
        /\ cacheWrites' # cacheWrites =>
              /\ cacheWrites' = cacheWrites + 1
              /\ ocrCalls' = ocrCalls + 1
        /\ (ocrCalls' # ocrCalls /\ status' # "crashed") =>
              /\ cacheWrites' = cacheWrites + 1
              /\ cache' = File(extracted_text'.text)
      ]_vars

\* A second call right after the cold run that wrote the cache.
C6_Witness ==
    /\ Returned /\ runs = 2 /\ hadCache
    /\ ocrCalls = 1 /\ cacheWrites = 1
    /\ cache = File(FullText(elements))
    /\ extracted_text = Str(FullText(elements))

\* C7: whatever the direct check finds or raises, the wrapper check runs
\* after it, and whatever either raises, the run ends with the completion
\* message and without an uncaught exception.
C7_ChecksIndependent ==
    prog = "check_db" =>
        /\ status # "crashed"
        /\ pc \in {"wrapper", "complete", "exit"} => out[1] = "method_1"
        /\ pc \in {"complete", "exit"} =>
              \E i \in 3..Len(out) : out[i] = "method_2"
        /\ pc = "exit" => (status = "ok" /\ LastPrinted = "check_complete")

\* Both checks raised, and the run completed.
C7_Witness ==
    /\ prog = "check_db" /\ pc = "exit"
    /\ Printed("direct_error") /\ Printed("wrapper_error")
    /\ LastPrinted = "check_complete"

\* C8: an entry point whose input file is absent reports it and ends
\* without an uncaught exception.
C8_MissingInputHalts ==
    /\ (prog = "ingest" /\ pc # "get_ocr_text" /\ ~pdfExists) => Printed("pdf_not_found")
    /\ (prog = "load_to_db" /\ pc = "exit" /\ ~Printed("loading")) => Printed("text_not_found")
    /\ (pc = "exit" /\ (Printed("pdf_not_found") \/ Printed("text_not_found"))) =>
          status = "ok"

\* The identifiers of the text, in order, and whether the last one ends it.
Identifiers(t) ==
    LET sp == ReSplit(t) IN [k \in 1..((Len(sp) - 1) \div 2) |-> sp[2 * k]]

TrailingIdentifier(t) ==
    LET sp == ReSplit(t) IN Len(sp) > 1 /\ sp[Len(sp)] = <<>>

\* C10: the regex strategy emits, in document order, one section per
\* identifier that has a following fragment, and none for an identifier
\* that ends the text.
C10_TrailingIdentifierDropped ==
    (prog = "load_to_db" /\ pc = "fallback") =>
        LET ids == Identifiers(text)
            n == IF TrailingIdentifier(text) THEN Len(ids) - 1 ELSE Len(ids)
        IN  /\ Len(sections) = n
            /\ \A k \in 1..n : sections[k].metadata.section = ids[k]

\* The line is the literal exit in any mix of cases.
ExitLine(l) ==
    /\ Len(l) = 4
    /\ l[1] \in {"e", "E"} /\ l[2] \in {"x", "X"}
    /\ l[3] \in {"i", "I"} /\ l[4] \in {"t", "T"}

\* C3 as stated: exit as the first input ends the run with no retrieval and
\* no generation made since main started.
C3_AsStated ==
    (prog = "main" /\ turns = 0 /\ ExitLine(user_question)) =>
        /\ pc = "exit" /\ status = "ok"
        /\ retrievals = 0
        /\ generations = 0

\* C3, amended: exit as the first input ends the run with no generation and
\* with the one retrieval main makes before the loop to try the retriever.
C3_OnlyStartupRetrieval ==
    (prog = "main" /\ turns = 0 /\ ExitLine(user_question)) =>
        /\ pc = "exit" /\ status = "ok"
        /\ retrievals = 1
        /\ generations = 0
        /\ response = NoResponse
        /\ out = <<"initializing", "retriever_test", "ready">>

C3_Witness ==
    /\ prog = "main" /\ pc = "exit" /\ status = "ok" /\ turns = 0
    /\ user_question = <<"E", "X", "I", "T">>
    /\ retrievals = 1

\* sources and answer, printed once per turn.
RECURSIVE Presented(_)
Presented(n) == IF n = 0 THEN <<>> ELSE Presented(n - 1) \o <<"sources", "answer">>

\* C9: an exit line, and only an exit line, ends the loop, with nothing
\* retrieved or generated after it; any other line is followed by one
\* retrieval with k = 3 for that line, then one generation from that
\* retrieval's context and that line, then the sources and the answer, then
\* the next input.  The retrieval before the loop is the one counted first.
C9_TurnByTurn ==
    (prog = "main" /\ status # "crashed") =>
        /\ pc = "retrieve" => ~ExitLine(user_question)
        /\ pc = "exit" => ExitLine(user_question)
        /\ pc \in {"await", "retrieve", "exit"} =>
              (retrievals = 1 + turns /\ generations = turns)
        /\ pc = "generate" => (retrievals = 2 + turns /\ generations = turns)
        /\ pc = "present" => (retrievals = 2 + turns /\ generations = turns + 1)
        /\ pc \in {"generate", "present"} =>
              /\ response.question = user_question
              /\ response.context.query = user_question
              /\ response.context.call = retrievals
              /\ response.context.hits <= 3
              /\ response.context.hits <= Len(db.records)
              /\ (response.context.hits = 3 \/ response.context.hits = Len(db.records))
        /\ pc = "present" =>
              /\ response.answer.call = generations
              /\ response.answer.prompt.context = response.context
              /\ response.answer.prompt.question = user_question
        /\ pc # "init" =>
              out = <<"initializing", "retriever_test", "ready">> \o Presented(turns)

\* The second turn of a session is about to be presented.
C9_Witness ==
    /\ prog = "main" /\ pc = "present" /\ turns = 1
    /\ user_question = <<"D", "o", "g", "s", "?">>
    /\ response.context.call = 3
    /\ response.context.hits = 3
====
